---------------------------- MODULE Spec2Model ----------------------------
(* A model of bot/train.py: the Training class, whose get_domain_file     *)
(* merges the YAML fragments of the domains directory into one temporary   *)
(* domain file, and whose train_nlu, train_dialogue and                    *)
(* interactive_training delegate to the external framework.                *)
EXTENDS Integers, Sequences, FiniteSets, TLC

(***************************************************************************)
(* Bounds of the model.                                                    *)
(***************************************************************************)
\* The longest domains directory drawn by MergeInit.
MaxFiles == 2
\* The most get_domain_file invocations of one behaviour of Spec.
MaxCalls == 2

(***************************************************************************)
(* Python values, as yaml.safe_load produces them and as the merge holds   *)
(* them: a value carries its type in t.                                    *)
(***************************************************************************)
None == [t |-> "none"]
Str(s) == [t |-> "str", s |-> s]
List(items) == [t |-> "list", items |-> items]
Map(m) == [t |-> "map", m |-> m]
Set(elems) == [t |-> "set", elems |-> elems]
EmptyMap == [k \in {} |-> None]

\* str is a sequence of characters: what iterating over a str yields.
Chars(s) ==
    CASE s = "ab" -> <<"a", "b">>
      [] s = "type" -> <<"t", "y", "p", "e">>
      [] s = "text" -> <<"t", "e", "x", "t">>
      [] s = "initial" -> <<"i", "n", "i", "t", "i", "a", "l">>
      [] OTHER -> <<s>>

\* The strings of the model in Python's sort order (yaml.dump sorts the keys
\* of every mapping it writes).
Sorted ==
    <<"a", "ab", "actions", "b", "c", "entities", "foo", "initial", "intents",
      "s", "slots", "t", "templates", "text", "type", "x">>

SortKeys(S) == SelectSeq(Sorted, LAMBDA k : k \in S)

Range(f) == {f[i] : i \in DOMAIN f}

\* The orders in which iterating a set of n elements may yield them.
Orderings(S) ==
    {f \in [1..Cardinality(S) -> S] : \A i, j \in DOMAIN f : f[i] = f[j] => i = j}

(***************************************************************************)
(* YAML text, as the stream of events yaml.dump emits and yaml.safe_load   *)
(* composes: scalars, and the start and end of sequences and mappings.     *)
(***************************************************************************)
Scalar(s) == [e |-> "scalar", v |-> s]
SeqStart == [e |-> "seq_start", v |-> ""]
SeqEnd == [e |-> "seq_end", v |-> ""]
MapStart == [e |-> "map_start", v |-> ""]
SetStart == [e |-> "map_start", v |-> "!!set"]
MapEnd == [e |-> "map_end", v |-> ""]

RECURSIVE Concat(_)
Concat(seqs) == IF seqs = <<>> THEN <<>> ELSE Head(seqs) \o Concat(Tail(seqs))

\* yaml.dump(value): sequences in their order, mapping keys sorted, a set as
\* a !!set mapping of its elements to null.
RECURSIVE yaml_dump(_)
yaml_dump(v) ==
    CASE v.t = "str" -> <<Scalar(v.s)>>
      [] v.t = "none" -> <<Scalar("~")>>
      [] v.t = "list" ->
            <<SeqStart>> \o Concat([i \in DOMAIN v.items |-> yaml_dump(v.items[i])])
                         \o <<SeqEnd>>
      [] v.t = "map" ->
            LET keys == SortKeys(DOMAIN v.m)
            IN  <<MapStart>>
                \o Concat([i \in DOMAIN keys |->
                             <<Scalar(keys[i])>> \o yaml_dump(v.m[keys[i]])])
                \o <<MapEnd>>
      [] v.t = "set" ->
            LET keys == SortKeys({x.s : x \in v.elems})
            IN  <<SetStart>>
                \o Concat([i \in DOMAIN keys |-> <<Scalar(keys[i]), Scalar("~")>>])
                \o <<MapEnd>>

ParseError == [ok |-> FALSE, err |-> "ParserError"]

RECURSIVE ParseNode(_, _)
RECURSIVE ParseItems(_, _, _)
RECURSIVE ParseEntries(_, _, _, _)

\* The node starting at event i: its value and the index after it.
ParseNode(ev, i) ==
    IF i > Len(ev) THEN ParseError
    ELSE CASE ev[i].e = "scalar" ->
                [ok |-> TRUE, val |-> IF ev[i].v = "~" THEN None ELSE Str(ev[i].v),
                 next |-> i + 1]
           [] ev[i].e = "seq_start" -> ParseItems(ev, i + 1, <<>>)
           [] ev[i].e = "map_start" -> ParseEntries(ev, i + 1, EmptyMap, ev[i].v)
           [] OTHER -> ParseError

ParseItems(ev, i, acc) ==
    IF i > Len(ev) THEN ParseError
    ELSE IF ev[i].e = "seq_end"
         THEN [ok |-> TRUE, val |-> List(acc), next |-> i + 1]
         ELSE LET r == ParseNode(ev, i)
              IN  IF ~r.ok THEN ParseError
                  ELSE ParseItems(ev, r.next, Append(acc, r.val))

ParseEntries(ev, i, acc, tag) ==
    IF i > Len(ev) THEN ParseError
    ELSE IF ev[i].e = "map_end"
         THEN [ok |-> TRUE,
               val |-> IF tag = "!!set"
                       THEN Set({Str(k) : k \in DOMAIN acc})
                       ELSE Map(acc),
               next |-> i + 1]
         ELSE IF ev[i].e # "scalar" \/ i + 1 > Len(ev) THEN ParseError
         ELSE LET r == ParseNode(ev, i + 1)
              IN  IF ~r.ok THEN ParseError
                  ELSE ParseEntries(ev, r.next,
                         [k \in DOMAIN acc \cup {ev[i].v} |->
                            IF k = ev[i].v THEN r.val ELSE acc[k]], tag)

\* yaml.safe_load(text): None for an empty document, ParserError for a
\* stream that is not one well-formed node.
yaml_safe_load(text) ==
    IF text = <<>> THEN [ok |-> TRUE, val |-> None]
    ELSE LET r == ParseNode(text, 1)
         IN  IF r.ok /\ r.next = Len(text) + 1
             THEN [ok |-> TRUE, val |-> r.val]
             ELSE ParseError

(***************************************************************************)
(* The program's state.                                                    *)
(***************************************************************************)
VARIABLES
    dirExists,      \* whether self.domains_directory exists
    dirFiles,       \* its files in listing order: [ext, text]
    tmp,            \* the temporary directory: file name -> text
    invocations,    \* get_domain_file invocations so far
    ret,            \* the outcome of the last get_domain_file invocation
    data,           \* the document the last successful invocation dumped
    op,             \* the Training method running, or the last one run
    pc,             \* its position
    calls,          \* the calls it has made: [call, ok]
    policies,       \* the policies of the last Agent built
    models          \* the model directories persisted so far

vars ==
    <<dirExists, dirFiles, tmp, invocations, ret, data, op, pc, calls,
      policies, models>>

(***************************************************************************)
(* get_domain_file: the merge.                                             *)
(***************************************************************************)
DataKeys == {"slots", "entities", "intents", "templates", "actions"}
MappingKeys == {"slots", "templates"}
SetKeys == DataKeys \ MappingKeys

InitialDataNoTemplates ==
    [k \in DataKeys \ {"templates"} |->
       IF k \in MappingKeys THEN Map(EmptyMap) ELSE Set({})]

InitialData ==
    [k \in DataKeys |-> IF k \in MappingKeys THEN Map(EmptyMap) ELSE Set({})]

\* glob.glob(os.path.join(self.domains_directory, '*.' + ext)): nothing when
\* the directory does not exist.
glob(ext) ==
    IF dirExists THEN SelectSeq(dirFiles, LAMBDA f : f.ext = ext) ELSE <<>>

DomainFiles == glob("yml") \o glob("yaml")

\* Python's truth value of a loaded document.
Truthy(v) ==
    CASE v.t = "none" -> FALSE
      [] v.t = "str" -> v.s # ""
      [] v.t = "list" -> v.items # <<>>
      [] v.t = "map" -> DOMAIN v.m # {}
      [] v.t = "set" -> v.elems # {}

Hashable(v) == v.t \in {"str", "none"}

UpdateError == [ok |-> FALSE, err |-> "TypeError or ValueError"]

\* A set replaced by what v yields instead of growing by it.
set_replace(target, v) ==
    CASE v.t = "list" -> [ok |-> TRUE, val |-> Set(Range(v.items))]
      [] OTHER -> UpdateError

\* set.update(v): the elements iterating v yields, each of which must be
\* hashable; a str yields its characters, a mapping its keys.
set_update(target, v) ==
    CASE v.t = "none" -> UpdateError
      [] v.t = "str" ->
            [ok |-> TRUE, val |-> Set(target.elems \cup {Str(c) : c \in Range(Chars(v.s))})]
      [] v.t = "list" ->
            IF \A i \in DOMAIN v.items : Hashable(v.items[i])
            THEN [ok |-> TRUE, val |-> Set(target.elems \cup Range(v.items))]
            ELSE UpdateError
      [] v.t = "map" ->
            [ok |-> TRUE, val |-> Set(target.elems \cup {Str(k) : k \in DOMAIN v.m})]
      [] v.t = "set" ->
            [ok |-> TRUE, val |-> Set(target.elems \cup v.elems)]

\* One element of a dict.update sequence is a key and a value when iterating
\* it yields exactly two things.
IsPair(item) ==
    \/ item.t = "str" /\ Len(Chars(item.s)) = 2
    \/ item.t = "list" /\ Len(item.items) = 2 /\ item.items[1].t = "str"

PairKey(item) ==
    IF item.t = "str" THEN Chars(item.s)[1] ELSE item.items[1].s

PairValue(item) ==
    IF item.t = "str" THEN Str(Chars(item.s)[2]) ELSE item.items[2]

RECURSIVE PutPairs(_, _)
PutPairs(m, items) ==
    IF items = <<>> THEN m
    ELSE PutPairs([k \in DOMAIN m \cup {PairKey(Head(items))} |->
                     IF k = PairKey(Head(items)) THEN PairValue(Head(items))
                     ELSE m[k]],
                  Tail(items))

\* A dict that keeps the value it has for a key v also holds.
dict_setdefault(target, v) ==
    CASE v.t = "map" ->
            [ok |-> TRUE,
             val |-> Map([k \in DOMAIN target.m \cup DOMAIN v.m |->
                            IF k \in DOMAIN target.m THEN target.m[k] ELSE v.m[k]])]
      [] OTHER -> UpdateError

\* dict.update(v): a mapping's keys overwrite the target's, each with its
\* whole value; any other iterable must yield key/value pairs.
dict_update(target, v) ==
    CASE v.t = "map" ->
            [ok |-> TRUE,
             val |-> Map([k \in DOMAIN target.m \cup DOMAIN v.m |->
                            IF k \in DOMAIN v.m THEN v.m[k] ELSE target.m[k]])]
      [] v.t = "none" -> UpdateError
      [] v.t = "str" ->
            IF v.s = "" THEN [ok |-> TRUE, val |-> target] ELSE UpdateError
      [] v.t = "list" ->
            IF \A i \in DOMAIN v.items : IsPair(v.items[i])
            THEN [ok |-> TRUE, val |-> Map(PutPairs(target.m, v.items))]
            ELSE UpdateError
      [] v.t = "set" ->
            \* no fragment of the model holds a !!set: its elements in sorted order
            LET items == [i \in DOMAIN SortKeys({x.s : x \in v.elems}) |->
                            Str(SortKeys({x.s : x \in v.elems})[i])]
            IN  IF \A i \in DOMAIN items : IsPair(items[i])
                THEN [ok |-> TRUE, val |-> Map(PutPairs(target.m, items))]
                ELSE UpdateError

\* data[k].update(v)
Update(target, v) ==
    IF target.t = "set" THEN set_update(target, v) ELSE dict_update(target, v)

\* A merge that skips the keys data does not hold.
MergeKnownKeys(d, yaml_data) ==
    IF ~Truthy(yaml_data) THEN [ok |-> TRUE, data |-> d]
    ELSE IF yaml_data.t # "map" THEN [ok |-> FALSE, err |-> "AttributeError"]
    ELSE IF \E k \in DOMAIN yaml_data.m \cap DOMAIN d : ~Update(d[k], yaml_data.m[k]).ok
         THEN UpdateError
    ELSE [ok |-> TRUE,
          data |-> [k \in DOMAIN d |->
                      IF k \in DOMAIN yaml_data.m
                      THEN Update(d[k], yaml_data.m[k]).val
                      ELSE d[k]]]

\* if yaml_data: for k, v in yaml_data.items(): data[k].update(v)
\* The keys of one fragment update different entries of data, so the
\* outcome does not depend on the order of its items: it raises when any
\* key is unknown or any update raises.
MergeFragment(d, yaml_data) ==
    IF ~Truthy(yaml_data) THEN [ok |-> TRUE, data |-> d]
    ELSE IF yaml_data.t # "map" THEN [ok |-> FALSE, err |-> "AttributeError"]
    ELSE IF \E k \in DOMAIN yaml_data.m : k \notin DOMAIN d
         THEN [ok |-> FALSE, err |-> "KeyError"]
    ELSE IF \E k \in DOMAIN yaml_data.m : ~Update(d[k], yaml_data.m[k]).ok
         THEN UpdateError
    ELSE [ok |-> TRUE,
          data |-> [k \in DOMAIN d |->
                      IF k \in DOMAIN yaml_data.m
                      THEN Update(d[k], yaml_data.m[k]).val
                      ELSE d[k]]]

RECURSIVE MergeAll(_, _)

\* A loop that skips the files that do not parse.
RECURSIVE MergeParsable(_, _)
MergeParsable(files, d) ==
    IF files = <<>> THEN [ok |-> TRUE, data |-> d]
    ELSE LET loaded == yaml_safe_load(Head(files).text)
         IN  IF ~loaded.ok THEN MergeParsable(Tail(files), d)
             ELSE LET r == MergeFragment(d, loaded.val)
                  IN  IF ~r.ok THEN r ELSE MergeParsable(Tail(files), r.data)

\* The loop over the globbed files: the first error ends it.
MergeAll(files, d) ==
    IF files = <<>> THEN [ok |-> TRUE, data |-> d]
    ELSE LET loaded == yaml_safe_load(Head(files).text)
         IN  IF ~loaded.ok THEN loaded
             ELSE LET r == MergeFragment(d, loaded.val)
                  IN  IF ~r.ok THEN r ELSE MergeAll(Tail(files), r.data)

\* The set left as it is.
KeepSet(v, order) == v

\* list(v) of a set: its elements in the order iteration yields them.
ToList(v, order) == List(order)

\* A loop that makes a list of every value, a mapping's keys included.
FinaliseAllLists(d, order) ==
    [k \in DOMAIN d |->
       IF d[k].t = "set" THEN ToList(d[k], order[k])
       ELSE List([i \in DOMAIN SortKeys(DOMAIN d[k].m) |->
                    Str(SortKeys(DOMAIN d[k].m)[i])])]

\* The loop after the merge: a set becomes a list, a mapping is updated
\* with itself.
Finalise(d, order) ==
    [k \in DOMAIN d |->
       IF d[k].t = "set" THEN ToList(d[k], order[k])
       ELSE dict_update(d[k], d[k]).val]

\* tempfile.NamedTemporaryFile(prefix='domain-', suffix='.yml', delete=False)
\* creates a file under a name no existing file has.
TmpNames == 1..(MaxCalls + 1)
\* A name chosen without regard to the files that exist.
AnyNames == TmpNames

FreshNames == TmpNames \ DOMAIN tmp

WriteFile(path, text) ==
    [n \in DOMAIN tmp \cup {path} |-> IF n = path THEN text ELSE tmp[n]]

NoReturn == [ok |-> FALSE, err |-> "not called"]
NoData == [k \in {} |-> None]

\* The body of get_domain_file, creating its temporary file as path. The
\* file is opened for writing before the merge, so a merge that raises
\* leaves it empty.
DomainFileBody(path) ==
    /\ invocations' = invocations + 1
    /\ \E r \in {MergeAll(DomainFiles, InitialData)} :
          IF r.ok
          THEN \E oe \in Orderings(r.data["entities"].elems),
                  oi \in Orderings(r.data["intents"].elems),
                  oa \in Orderings(r.data["actions"].elems) :
                  \E doc \in {Finalise(r.data,
                                 [k \in SetKeys |->
                                    CASE k = "entities" -> oe
                                      [] k = "intents" -> oi
                                      [] k = "actions" -> oa])} :
                     /\ tmp' = WriteFile(path, yaml_dump(Map(doc)))
                     /\ ret' = [ok |-> TRUE, path |-> path]
                     /\ data' = doc
          ELSE /\ tmp' = WriteFile(path, <<>>)
               /\ ret' = [ok |-> FALSE, err |-> r.err]
               /\ data' = NoData

(***************************************************************************)
(* The methods of Training.                                                *)
(***************************************************************************)
Call(name, ok) == [call |-> name, ok |-> ok]

PolicyOrder == <<"MemoizationPolicy", "ChatBotPolicy", "FallbackPolicy">>

\* A call into the external framework from position from: it returns, and
\* the method goes on at to, or it raises, and the method ends.
External(from, name, to) ==
    /\ pc = from
    /\ \E ok \in BOOLEAN :
          /\ calls' = Append(calls, Call(name, ok))
          /\ pc' = IF ok THEN to ELSE "idle"

\* get_domain_file() called by from: the method goes on at to with the path.
DomainFileFrom(from, to) ==
    /\ pc = from
    /\ \E path \in FreshNames : DomainFileBody(path)
    /\ calls' = Append(calls, Call("get_domain_file", ret'.ok))
    /\ pc' = IF ret'.ok THEN to ELSE "idle"
    /\ UNCHANGED <<dirExists, dirFiles, op, policies, models>>

get_domain_file ==
    /\ pc = "idle"
    /\ invocations < MaxCalls
    /\ \E path \in FreshNames : DomainFileBody(path)
    /\ op' = "get_domain_file"
    /\ calls' = <<Call("get_domain_file", ret'.ok)>>
    /\ pc' = "idle"
    /\ UNCHANGED <<dirExists, dirFiles, policies, models>>

Unchanged_files == UNCHANGED <<dirExists, dirFiles, tmp, invocations, ret, data>>

train_nlu ==
    /\ pc = "idle"
    /\ op' = "train_nlu"
    /\ \E ok \in BOOLEAN :
          /\ calls' = <<Call("load_data", ok)>>
          /\ pc' = IF ok THEN "nlu_trainer" ELSE "idle"
    /\ Unchanged_files /\ UNCHANGED <<policies, models>>

nlu_Trainer ==
    /\ External("nlu_trainer", "Trainer", "nlu_train")
    /\ Unchanged_files /\ UNCHANGED <<op, policies, models>>

nlu_train ==
    /\ External("nlu_train", "train", "nlu_persist")
    /\ Unchanged_files /\ UNCHANGED <<op, policies, models>>

nlu_persist ==
    /\ External("nlu_persist", "persist", "idle")
    /\ models' = IF calls'[Len(calls')].ok THEN models \cup {"nlu"} ELSE models
    /\ Unchanged_files /\ UNCHANGED <<op, policies>>

train_dialogue ==
    /\ pc = "idle"
    /\ invocations < MaxCalls
    /\ op' = "train_dialogue"
    /\ \E ok \in BOOLEAN :
          /\ calls' = <<Call("FallbackPolicy", ok)>>
          /\ pc' = IF ok THEN "td_domain" ELSE "idle"
    /\ Unchanged_files /\ UNCHANGED <<policies, models>>

td_get_domain_file == DomainFileFrom("td_domain", "td_agent")

td_Agent ==
    /\ External("td_agent", "Agent", "td_load_data")
    /\ policies' = PolicyOrder
    /\ Unchanged_files /\ UNCHANGED <<op, models>>

\* load_data followed by persist, not train.
td_load_data_then_persist ==
    /\ External("td_load_data", "load_data", "td_persist")
    /\ Unchanged_files /\ UNCHANGED <<op, policies, models>>

td_load_data ==
    /\ External("td_load_data", "load_data", "td_train")
    /\ Unchanged_files /\ UNCHANGED <<op, policies, models>>

td_train ==
    /\ External("td_train", "train", "td_persist")
    /\ Unchanged_files /\ UNCHANGED <<op, policies, models>>

td_persist ==
    /\ External("td_persist", "persist", "idle")
    /\ models' = IF calls'[Len(calls')].ok THEN models \cup {"dialogue"} ELSE models
    /\ Unchanged_files /\ UNCHANGED <<op, policies>>

interactive_training ==
    /\ pc = "idle"
    /\ invocations < MaxCalls
    /\ op' = "interactive_training"
    /\ \E ok \in BOOLEAN :
          /\ calls' = <<Call("FallbackPolicy", ok)>>
          /\ pc' = IF ok THEN "it_interpreter" ELSE "idle"
    /\ Unchanged_files /\ UNCHANGED <<policies, models>>

it_RasaNLUInterpreter ==
    /\ External("it_interpreter", "RasaNLUInterpreter", "it_domain")
    /\ Unchanged_files /\ UNCHANGED <<op, policies, models>>

it_get_domain_file == DomainFileFrom("it_domain", "it_agent")

it_Agent ==
    /\ External("it_agent", "Agent", "it_train_online")
    /\ policies' = PolicyOrder
    /\ Unchanged_files /\ UNCHANGED <<op, models>>

it_train_online ==
    /\ External("it_train_online", "train_online", "idle")
    /\ Unchanged_files /\ UNCHANGED <<op, policies, models>>

(***************************************************************************)
(* The domains directories the model draws.                                *)
(***************************************************************************)
SlotText == Map([f \in {"type"} |-> Str("text")])
SlotInitial == Map([f \in {"initial"} |-> Str("x")])

One(k, v) == Map([x \in {k} |-> v])
Two(k1, v1, k2, v2) == Map([x \in {k1, k2} |-> IF x = k1 THEN v1 ELSE v2])

IntentsAB == One("intents", List(<<Str("a"), Str("b")>>))
IntentsBC == One("intents", List(<<Str("b"), Str("c")>>))
SlotsS == Two("slots", One("s", SlotText), "entities", List(<<Str("a")>>))
SlotsST == One("slots", Two("s", SlotInitial, "t", SlotText))
TemplatesS == Two("templates", One("s", SlotText), "actions", List(<<Str("a"), Str("a")>>))
TemplatesS2 == One("templates", One("s", SlotInitial))

WellFormedValues == {IntentsAB, IntentsBC, SlotsS, SlotsST, TemplatesS, TemplatesS2}

UnknownKey == Two("intents", List(<<Str("c")>>), "foo", List(<<Str("a")>>))
BareString == One("intents", Str("ab"))
MappingUnderList == One("actions", One("s", SlotText))
ListUnderMapping == One("slots", List(<<Str("ab")>>))
NullUnderList == One("entities", None)
TopLevelList == List(<<Str("a")>>)

OddValues ==
    {UnknownKey, BareString, MappingUnderList, ListUnderMapping, NullUnderList,
     TopLevelList}

EmptyText == <<>>
MalformedText == <<MapStart, Scalar("intents")>>

Texts ==
    {yaml_dump(v) : v \in WellFormedValues \cup OddValues}
        \cup {EmptyText, MalformedText}

File(ext, text) == [ext |-> ext, text |-> text]

Files ==
    {File("yml", t) : t \in Texts}
        \cup {File("yaml", yaml_dump(v)) : v \in {IntentsBC, SlotsST}}
        \cup {File("txt", yaml_dump(UnknownKey))}

SeqsUpTo(S, n) == UNION {[1..k -> S] : k \in 0..n}

StartState ==
    /\ tmp = [n \in {} |-> <<>>]
    /\ invocations = 0
    /\ ret = NoReturn
    /\ data = NoData
    /\ op = "none"
    /\ pc = "idle"
    /\ calls = <<>>
    /\ policies = <<>>
    /\ models = {}

\* Three domains directories: none, one that merges and one that does not.
TrainDirs ==
    {<<File("yml", yaml_dump(IntentsAB)), File("yaml", yaml_dump(SlotsST))>>,
     <<File("yml", yaml_dump(IntentsAB)), File("yml", MalformedText)>>}

Init ==
    /\ \/ dirExists = FALSE /\ dirFiles = <<>>
       \/ dirExists = TRUE /\ dirFiles \in TrainDirs
    /\ StartState

Next ==
    \/ get_domain_file
    \/ train_nlu \/ nlu_Trainer \/ nlu_train \/ nlu_persist
    \/ train_dialogue \/ td_get_domain_file \/ td_Agent \/ td_load_data
    \/ td_train \/ td_persist
    \/ interactive_training \/ it_RasaNLUInterpreter \/ it_get_domain_file
    \/ it_Agent \/ it_train_online

Spec == Init /\ [][Next]_vars

\* get_domain_file applied once to every directory of at most MaxFiles files.
MergeInit ==
    /\ \/ dirExists = FALSE /\ dirFiles = <<>>
       \/ dirExists = TRUE /\ dirFiles \in SeqsUpTo(Files, MaxFiles)
    /\ StartState

MergeNext == invocations = 0 /\ get_domain_file

MergeSpec == MergeInit /\ [][MergeNext]_vars

(***************************************************************************)
(* The properties.                                                         *)
(***************************************************************************)
Called == invocations > 0

Loaded(i) == yaml_safe_load(DomainFiles[i].text)

\* The document the file the last invocation returned parses to.
Written == yaml_safe_load(tmp[ret.path])

NoDuplicates(items) == \A i, j \in DOMAIN items : items[i] = items[j] => i = j

IsListOfStrings(v) ==
    v.t = "list" /\ \A i \in DOMAIN v.items : v.items[i].t = "str"

\* A fragment the contract allows: empty, or a mapping of recognised keys to
\* lists of strings and to mappings.
WellFormed(v) ==
    \/ v.t = "none"
    \/ /\ v.t = "map"
       /\ DOMAIN v.m \subseteq DataKeys
       /\ \A k \in DOMAIN v.m :
             IF k \in MappingKeys THEN v.m[k].t = "map" ELSE IsListOfStrings(v.m[k])

AllWellFormed ==
    \A i \in DOMAIN DomainFiles : Loaded(i).ok /\ WellFormed(Loaded(i).val)

Has(i, k) == Loaded(i).val.t = "map" /\ k \in DOMAIN Loaded(i).val.m

\* The strings the processed fragments list under k.
Listed(k) ==
    UNION {Range(Loaded(i).val.m[k].items) : i \in {j \in DOMAIN DomainFiles : Has(j, k)}}

\* C1: with no domains directory, or none of its files matching *.yml or
\* *.yaml, the invocation returns a path, and the file written holds the five
\* keys, each empty.
C1_EmptyDocument ==
    (Called /\ DomainFiles = <<>>) =>
        /\ ret.ok
        /\ \A w \in {Written} :
              /\ w.ok
              /\ w.val.t = "map"
              /\ DOMAIN w.val.m = DataKeys
              /\ \A k \in DataKeys :
                    w.val.m[k] = IF k \in MappingKeys THEN Map(EmptyMap) ELSE List(<<>>)

C1_Witness == Called /\ ~dirExists /\ ret.ok

\* C2: over well-formed fragments, entities, intents and actions each hold
\* exactly the strings the fragments list under that key, each once, in
\* whatever order the fragments are processed.
C2_ListsAreUnions ==
    (Called /\ AllWellFormed) =>
        /\ ret.ok
        /\ \A k \in SetKeys :
              /\ data[k].t = "list"
              /\ Range(data[k].items) = Listed(k)
              /\ NoDuplicates(data[k].items)

C2_Witness ==
    /\ Called /\ ret.ok
    /\ Len(DomainFiles) = 2
    /\ Loaded(1).val = IntentsBC /\ Loaded(2).val = IntentsAB
    /\ Range(data["intents"].items) = {Str("a"), Str("b"), Str("c")}
    /\ Len(data["intents"].items) = 3

\* C3: over well-formed fragments, every name a fragment defines under
\* slots or templates is in the merged mapping, with the whole definition of
\* the last processed fragment that defines it.
C3_LastDefinitionWins ==
    (Called /\ AllWellFormed) =>
        /\ ret.ok
        /\ \A k \in MappingKeys :
              \A i \in {j \in DOMAIN DomainFiles : Has(j, k)} :
                 \A n \in DOMAIN Loaded(i).val.m[k].m :
                    /\ n \in DOMAIN data[k].m
                    /\ (\A j \in DOMAIN DomainFiles :
                           (j > i /\ Has(j, k)) => n \notin DOMAIN Loaded(j).val.m[k].m)
                       => data[k].m[n] = Loaded(i).val.m[k].m[n]

C3_Witness ==
    /\ Called /\ ret.ok
    /\ Len(DomainFiles) = 2
    /\ Loaded(1).val = SlotsS /\ Loaded(2).val = SlotsST
    /\ data["slots"].m["s"] = SlotInitial
    /\ data["slots"].m["t"] = SlotText

\* C4: a processed fragment with a top-level key outside the five makes the
\* invocation raise: no path is returned and no document is written.
C4_UnknownKeyRaises ==
    (Called /\ \E i \in DOMAIN DomainFiles :
                  /\ Loaded(i).ok
                  /\ Loaded(i).val.t = "map"
                  /\ ~(DOMAIN Loaded(i).val.m \subseteq DataKeys)) =>
        /\ ~ret.ok
        /\ \A n \in DOMAIN tmp : tmp[n] = <<>>

C4_Witness ==
    /\ Called /\ ~ret.ok
    /\ Len(DomainFiles) = 2
    /\ Loaded(1).ok /\ Loaded(1).val = IntentsAB
    /\ Loaded(2).ok /\ Loaded(2).val = UnknownKey

\* C5: a processed fragment that does not parse makes the invocation raise:
\* no path is returned and the temporary file holds no document, whatever
\* the fragments before it held.
C5_ParseErrorAborts ==
    (Called /\ \E i \in DOMAIN DomainFiles : ~Loaded(i).ok) =>
        /\ ~ret.ok
        /\ \A n \in DOMAIN tmp : tmp[n] = <<>>

C5_Witness ==
    /\ Called /\ ~ret.ok
    /\ Len(DomainFiles) = 2
    /\ Loaded(1).ok /\ Loaded(1).val = IntentsAB
    /\ ~Loaded(2).ok

\* C6: the file a successful invocation writes holds exactly the five keys,
\* entities, intents and actions as lists without duplicates, slots and
\* templates as mappings.
C6_WrittenSchema ==
    (Called /\ ret.ok) =>
        \A w \in {Written} :
           /\ w.ok
           /\ w.val.t = "map"
           /\ DOMAIN w.val.m = DataKeys
           /\ \A k \in SetKeys :
                 w.val.m[k].t = "list" /\ NoDuplicates(w.val.m[k].items)
           /\ \A k \in MappingKeys : w.val.m[k].t = "map"

C6_Witness ==
    /\ Called /\ ret.ok
    /\ \E i \in DOMAIN DomainFiles : Loaded(i).val = TemplatesS
    /\ Written.val.m["actions"] = List(<<Str("a")>>)
    /\ Written.val.m["templates"] = Map([n \in {"s"} |-> SlotText])

\* Two documents with the same keys, the same mappings and, as sets, the
\* same lists.
Equivalent(a, b) ==
    /\ a.t = "map" /\ b.t = "map"
    /\ DOMAIN a.m = DOMAIN b.m
    /\ \A k \in DOMAIN a.m :
          IF a.m[k].t = "list"
          THEN b.m[k].t = "list" /\ Range(a.m[k].items) = Range(b.m[k].items)
          ELSE a.m[k] = b.m[k]

\* The documents a merge of the one file text may dump.
Remerged(text) ==
    UNION {IF ~r.ok THEN {}
           ELSE {Map(Finalise(r.data,
                       [k \in SetKeys |->
                          CASE k = "entities" -> o[1]
                            [] k = "intents" -> o[2]
                            [] k = "actions" -> o[3]])) :
                   o \in Orderings(r.data["entities"].elems)
                          \X Orderings(r.data["intents"].elems)
                          \X Orderings(r.data["actions"].elems)} :
             r \in {MergeAll(<<File("yml", text)>>, InitialData)}}

\* C7: the file written parses to a document equivalent to the merged one,
\* and a merge of that file alone dumps an equivalent document again.
C7_RoundTrip ==
    (Called /\ ret.ok) =>
        /\ \A w \in {Written} : w.ok /\ Equivalent(w.val, Map(data))
        /\ \A docs \in {Remerged(tmp[ret.path])} :
              docs # {} /\ \A again \in docs : Equivalent(again, Map(data))

C7_Witness ==
    /\ Called /\ ret.ok
    /\ Len(DomainFiles) = 2
    /\ Loaded(1).val = IntentsAB /\ Loaded(2).val = SlotsST
    /\ data["intents"].items = <<Str("b"), Str("a")>>
    /\ Written.val.m["slots"].m["s"] = SlotInitial

\* C8: after n invocations of get_domain_file, by whichever method and
\* whether they returned or raised, n temporary files exist.
C8_OneFilePerInvocation == Cardinality(DOMAIN tmp) = invocations

C8_Witness ==
    /\ invocations = 2
    /\ Cardinality(DOMAIN tmp) = 2
    /\ op = "interactive_training"
    /\ ~ret.ok
    /\ \A n \in DOMAIN tmp : tmp[n] = <<>>

\* A fragment of a shape the contract does not allow: not a mapping at top
\* level, or a recognised key with a value of the wrong type.
UnexpectedShape(v) ==
    \/ v.t \notin {"map", "none"} /\ Truthy(v)
    \/ /\ v.t = "map"
       /\ \E k \in DOMAIN v.m \cap DataKeys :
             IF k \in MappingKeys THEN v.m[k].t # "map" ELSE ~IsListOfStrings(v.m[k])

\* C9: a processed fragment of an unexpected shape makes the invocation
\* raise, and a document that is written holds under entities, intents and
\* actions only strings some fragment lists there.
C9_UnexpectedShapeRejected ==
    Called =>
        /\ (\E i \in DOMAIN DomainFiles : Loaded(i).ok /\ UnexpectedShape(Loaded(i).val))
              => ~ret.ok
        /\ ret.ok =>
              \A k \in SetKeys :
                 Range(data[k].items) \subseteq
                    UNION {Range(Loaded(i).val.m[k].items) :
                             i \in {j \in DOMAIN DomainFiles :
                                      Has(j, k) /\ Loaded(j).val.m[k].t = "list"}}

TrainDialogueOrder ==
    <<"FallbackPolicy", "get_domain_file", "Agent", "load_data", "train", "persist">>

InteractiveOrder ==
    <<"FallbackPolicy", "RasaNLUInterpreter", "get_domain_file", "Agent", "train_online">>

Names(c) == [i \in DOMAIN c |-> c[i].call]

IsPrefix(a, b) == Len(a) <= Len(b) /\ \A i \in DOMAIN a : a[i] = b[i]

\* C10: every step leaves the calls of train_dialogue a prefix of policy,
\* merge, Agent, load_data, train, persist with no call after one that
\* raised; a dialogue model appears only with the persist that ends that
\* whole sequence; interactive_training makes its own sequence, persists
\* nothing, and each Agent is built over Memoization, ChatBot, Fallback.
C10_DelegationOrder ==
    [][/\ op' = "train_dialogue" => IsPrefix(Names(calls'), TrainDialogueOrder)
       /\ op' = "interactive_training" => IsPrefix(Names(calls'), InteractiveOrder)
       /\ \A i \in 1..(Len(calls') - 1) : calls'[i].ok
       /\ (pc' # "idle") => calls'[Len(calls')].ok
       /\ "dialogue" \in models' \ models =>
             /\ op' = "train_dialogue"
             /\ Names(calls') = TrainDialogueOrder
             /\ calls'[Len(calls')].ok
       /\ op' = "interactive_training" => models' = models
       /\ (calls'[Len(calls')].call = "Agent") =>
             policies' = <<"MemoizationPolicy", "ChatBotPolicy", "FallbackPolicy">>
      ]_vars

C10_Witness ==
    /\ op = "train_dialogue"
    /\ pc = "idle"
    /\ Names(calls) = TrainDialogueOrder
    /\ calls[Len(calls)].ok
    /\ "dialogue" \in models

=============================================================================
